---- MODULE Spec2Model ----
(***************************************************************************)
(* Model of Assignments/HW1/code/visual_words.py: the filter bank          *)
(* (extract_filter_responses), the quantizer stub (get_visual_words), the  *)
(* per-image sampler run in a pool worker (compute_dictionary_one_image)   *)
(* and the coordinator (compute_dictionary), with multiprocessing.Pool.map *)
(* as CPython implements it: the argument list is cut into chunks, a       *)
(* worker process runs one chunk at a time with list(map(func, chunk)),    *)
(* and map() unblocks when every chunk has reported.                       *)
(***************************************************************************)
EXTENDS Integers, Sequences, FiniteSets, TLC

\* ------------------------------------------------------------------ bounds
\* pool sizes 1 .. MaxWorkers
MaxWorkers == 4
\* corpus sizes 0 .. MaxImages for a pool of one worker (from five images on,
\* its chunks hold more than one item)
MaxImages == 5
\* corpus sizes 0 .. MaxParallelImages for a pool of several workers
MaxParallelImages == 3
\* how many images of a run imread may fail to read
MaxUnreadable == 1

\* ------------------------------------------------------- program constants
\* alpha passed by compute_dictionary in every argument tuple
Alpha == 50
\* the amount added to PROGRESS per call of compute_dictionary_one_image
ProgressStep == 8

VARIABLES
    \* ---- compute_dictionary and its pool
    num_workers,     \* the parameter of compute_dictionary
    image_names,     \* train_data['image_names']: index -> image path
    pc,              \* where compute_dictionary is
    taskqueue,       \* the chunks no worker has taken yet
    number_left,     \* MapResult._number_left: chunks that have not reported
    success,         \* MapResult._success
    wpc,             \* worker process -> where it is in compute_dictionary_one_image
    wtask,           \* worker process -> the rest of its chunk (head: current args)
    PROGRESS,        \* process -> its copy of the module global (0: the parent)
    PROGRESS_LOCK,   \* the lock the workers inherit: 0 when free, else its holder
    log,             \* the lines printed, in order
    files,           \* the data directory: key -> content
    item_state,      \* index -> what has happened to its unit of work
    nwrites,         \* key -> how many times np.save wrote it in this run
    \* ---- the sampling loop of compute_dictionary_one_image on one image
    sm_pc,           \* where the loop is
    sm_shape,        \* image.shape[0], image.shape[1]
    sm_alpha,        \* args' alpha
    sm_j,            \* iterations of the loop made
    sm_draws,        \* the (ran_h, ran_w) drawn, in order
    sampled_response,\* the rows appended, in order
    \* ---- extract_filter_responses on one image
    ex_pc,           \* where the function is
    ex_channels,     \* 0 for a 2-D image, else image.shape[2]
    ex_rgb,          \* the input channels the three channels of `image` come from
    ex_sigma,        \* position in sigmas (1-based)
    ex_i,            \* the channel loop's i
    filter_responses,\* the list of planes appended so far
    \* ---- get_visual_words on one image and dictionary
    qz_pc,           \* where the call is
    qz_image,        \* the image's filter responses: pixel -> response vector
    qz_dictionary,   \* the K centroids
    wordmap          \* what get_visual_words returned

coordVars == <<num_workers, image_names, pc, taskqueue, number_left,
               success, wpc, wtask, PROGRESS, PROGRESS_LOCK, log, files,
               item_state, nwrites>>

samplerVars == <<sm_pc, sm_shape, sm_alpha, sm_j, sm_draws, sampled_response>>
extractVars == <<ex_pc, ex_channels, ex_rgb, ex_sigma, ex_i, filter_responses>>
quantVars == <<qz_pc, qz_image, qz_dictionary, wordmap>>

vars == <<coordVars, samplerVars, extractVars, quantVars>>

\* ----------------------------------------------------------------- helpers
NumImages == Cardinality(DOMAIN image_names)
Indices == 0 .. (NumImages - 1)
Workers == 1 .. num_workers
Processes == 0 .. num_workers

\* the path column of the manifest: image_names[i][0]
ImagePath(i) == <<"image", i>>

\* '../data/sampled_responses/%d' % i
SampleKey(i) == <<"sampled_responses", i>>
DictionaryKey == <<"dictionary", 0>>

\* an argument list that stops one image short
BuildArgsShort(names) ==
    [k \in 1 .. (Cardinality(DOMAIN names) - 1) |->
        [i |-> k - 1, alpha |-> Alpha, image_path |-> names[k - 1]]]

\* args = [(i, 50, train_data['image_names'][i][0]) for i in range(N)]
BuildArgs(names) ==
    [k \in 1 .. Cardinality(DOMAIN names) |->
        [i |-> k - 1, alpha |-> Alpha, image_path |-> names[k - 1]]]

\* Pool._map_async: chunksize, extra = divmod(len(iterable), len(pool) * 4)
ChunkSize(n, w) ==
    IF n = 0 THEN 0
    ELSE IF n % (w * 4) # 0 THEN (n \div (w * 4)) + 1 ELSE n \div (w * 4)

\* Pool._get_tasks: successive slices of `size` items
RECURSIVE GetTasks(_, _)
GetTasks(it, size) ==
    IF it = <<>> \/ size <= 0 THEN <<>>
    ELSE IF Len(it) <= size THEN <<it>>
    ELSE <<SubSeq(it, 1, size)>> \o GetTasks(SubSeq(it, size + 1, Len(it)), size)

\* the items whose image skimage.io.imread could not read
Failed == {i \in Indices : item_state[i] = "failed"}

\* a map that unblocks as soon as every chunk has been handed to a worker
MapReadyWhenQueueEmpty == taskqueue = <<>>

\* pool.map returns (or raises) once every chunk has reported
MapReady == number_left = 0

\* a save keyed by the sample count instead of the index
SaveKeyByAlpha(a) == SampleKey(a.alpha)

\* the key compute_dictionary_one_image saves under
SaveKey(a) == SampleKey(a.i)

\* the artifact np.save writes: alpha rows sampled from the image at image_path
SavedBatch(a) == [image_path |-> a.image_path, rows |-> a.alpha]

\* ------------------------------------------------------------------- Init
\* the other functions are not running
SamplerOff ==
    /\ sm_pc = "off" /\ sm_shape = <<0, 0>> /\ sm_alpha = 0 /\ sm_j = 0
    /\ sm_draws = <<>> /\ sampled_response = <<>>

ExtractOff ==
    /\ ex_pc = "off" /\ ex_channels = 0 /\ ex_rgb = <<>> /\ ex_sigma = 0
    /\ ex_i = 0 /\ filter_responses = <<>>

QuantOff ==
    /\ qz_pc = "off" /\ qz_image = <<>> /\ qz_dictionary = <<>>
    /\ wordmap = [kind |-> "unset"]

CoordOff ==
    /\ num_workers = 1 /\ image_names = <<>> /\ item_state = <<>>
    /\ pc = "off" /\ taskqueue = <<>> /\ number_left = 0 /\ success = TRUE
    /\ wpc = [w \in {1} |-> "nopool"] /\ wtask = [w \in {1} |-> <<>>]
    /\ PROGRESS = [p \in {0, 1} |-> 0] /\ PROGRESS_LOCK = 0
    /\ log = <<>> /\ files = <<>> /\ nwrites = <<>>

\* compute_dictionary is about to be called: module globals as lines 18-19 set them
Init ==
    /\ SamplerOff /\ ExtractOff /\ QuantOff
    /\ num_workers \in 1 .. MaxWorkers
    /\ \E n \in 0 .. (IF num_workers = 1 THEN MaxImages ELSE MaxParallelImages) :
          /\ image_names = [i \in 0 .. (n - 1) |-> ImagePath(i)]
          /\ item_state = [i \in 0 .. (n - 1) |-> "new"]
    /\ pc = "start"
    /\ taskqueue = <<>>
    /\ number_left = 0
    /\ success = TRUE
    /\ wpc = [w \in 1 .. num_workers |-> "nopool"]
    /\ wtask = [w \in 1 .. num_workers |-> <<>>]
    /\ PROGRESS = [p \in 0 .. num_workers |-> 0]
    /\ PROGRESS_LOCK = 0
    /\ log = <<>>
    /\ files = <<>>
    /\ nwrites = <<>>

\* ------------------------------------------------------- compute_dictionary
\* lines 133-142: load the manifest, build args, create the pool, enter map
Dispatch ==
    /\ pc = "start"
    /\ LET args == BuildArgs(image_names)
           tasks == GetTasks(args, ChunkSize(Len(args), num_workers))
       IN /\ taskqueue' = tasks
          /\ number_left' = Len(tasks)
          /\ item_state' = [i \in Indices |->
                IF \E c \in 1 .. Len(tasks) : \E k \in 1 .. Len(tasks[c]) : tasks[c][k].i = i
                THEN "queued" ELSE "new"]
    /\ success' = TRUE
    /\ wpc' = [w \in Workers |-> "idle"]
    /\ pc' = "map"
    /\ UNCHANGED <<num_workers, image_names, wtask, PROGRESS,
                   PROGRESS_LOCK, log, files, nwrites>>
    /\ UNCHANGED <<samplerVars, extractVars, quantVars>>

\* line 142: map returns its list
MapReturn ==
    /\ pc = "map"
    /\ MapReady
    /\ success
    /\ pc' = "mapped"
    /\ UNCHANGED <<num_workers, image_names, taskqueue, number_left,
                   success, wpc, wtask, PROGRESS, PROGRESS_LOCK, log, files,
                   item_state, nwrites>>
    /\ UNCHANGED <<samplerVars, extractVars, quantVars>>

\* line 142: map re-raises the first exception a chunk reported; nothing in
\* compute_dictionary catches it, so lines 143-144 are not run
MapRaise ==
    /\ pc = "map"
    /\ MapReady
    /\ ~success
    /\ pc' = "raised"
    /\ UNCHANGED <<num_workers, image_names, taskqueue, number_left,
                   success, wpc, wtask, PROGRESS, PROGRESS_LOCK, log, files,
                   item_state, nwrites>>
    /\ UNCHANGED <<samplerVars, extractVars, quantVars>>

\* line 143
PoolClose ==
    /\ pc = "mapped"
    /\ pc' = "closed"
    /\ UNCHANGED <<num_workers, image_names, taskqueue, number_left,
                   success, wpc, wtask, PROGRESS, PROGRESS_LOCK, log, files,
                   item_state, nwrites>>
    /\ UNCHANGED <<samplerVars, extractVars, quantVars>>

\* line 144: the workers of the closed pool, all idle, leave their loops; join
\* waits for every one of them, then compute_dictionary returns
PoolJoin ==
    /\ pc = "closed"
    /\ \A w \in Workers : wpc[w] = "idle"
    /\ taskqueue = <<>>
    /\ wpc' = [w \in Workers |-> "exited"]
    /\ pc' = "returned"
    /\ UNCHANGED <<num_workers, image_names, taskqueue, number_left,
                   success, wtask, PROGRESS, PROGRESS_LOCK, log, files,
                   item_state, nwrites>>
    /\ UNCHANGED <<samplerVars, extractVars, quantVars>>

\* --------------------------------------------- compute_dictionary_one_image
\* an idle worker takes the next chunk and calls the function on its first item
TakeTask(w) ==
    /\ wpc[w] = "idle"
    /\ taskqueue # <<>>
    /\ wtask' = [wtask EXCEPT ![w] = Head(taskqueue)]
    /\ taskqueue' = Tail(taskqueue)
    /\ wpc' = [wpc EXCEPT ![w] = "lock"]
    /\ item_state' = [item_state EXCEPT ![Head(Head(taskqueue)).i] = "running"]
    /\ UNCHANGED <<num_workers, image_names, pc, number_left, success,
                   PROGRESS, PROGRESS_LOCK, log, files, nwrites>>
    /\ UNCHANGED <<samplerVars, extractVars, quantVars>>

\* line 99: with PROGRESS_LOCK (entry)
AcquireLock(w) ==
    /\ wpc[w] = "lock"
    /\ PROGRESS_LOCK = 0
    /\ PROGRESS_LOCK' = w
    /\ wpc' = [wpc EXCEPT ![w] = "incr"]
    /\ UNCHANGED <<num_workers, image_names, pc, taskqueue, number_left,
                   success, wtask, PROGRESS, log, files, item_state, nwrites>>
    /\ UNCHANGED <<samplerVars, extractVars, quantVars>>

\* line 99: PROGRESS += 8 on this process's global, then the with block ends
IncrementRelease(w) ==
    /\ wpc[w] = "incr"
    /\ PROGRESS_LOCK = w
    /\ PROGRESS' = [PROGRESS EXCEPT ![w] = @ + ProgressStep]
    /\ PROGRESS_LOCK' = 0
    /\ wpc' = [wpc EXCEPT ![w] = "print"]
    /\ UNCHANGED <<num_workers, image_names, pc, taskqueue, number_left,
                   success, wtask, log, files, item_state, nwrites>>
    /\ UNCHANGED <<samplerVars, extractVars, quantVars>>

\* lines 101-102: unpack args, print the progress line
PrintProgress(w) ==
    /\ wpc[w] = "print"
    /\ log' = Append(log, [total |-> PROGRESS[w], index |-> Head(wtask[w]).i,
                           path |-> Head(wtask[w]).image_path])
    /\ wpc' = [wpc EXCEPT ![w] = "read"]
    /\ UNCHANGED <<num_workers, image_names, pc, taskqueue, number_left,
                   success, wtask, PROGRESS, PROGRESS_LOCK, files, item_state, nwrites>>
    /\ UNCHANGED <<samplerVars, extractVars, quantVars>>

\* line 105 raises: the exception leaves compute_dictionary_one_image and
\* list(map(func, chunk)); the worker reports (False, exc) for the chunk, whose
\* remaining items are never called; MapResult._set records the failure
ReadFails(w) ==
    /\ wpc[w] = "read"
    /\ Cardinality(Failed) < MaxUnreadable
    /\ item_state' = [i \in Indices |->
          IF i = Head(wtask[w]).i THEN "failed"
          ELSE IF \E k \in 2 .. Len(wtask[w]) : wtask[w][k].i = i THEN "skipped"
          ELSE item_state[i]]
    /\ wtask' = [wtask EXCEPT ![w] = <<>>]
    /\ wpc' = [wpc EXCEPT ![w] = "idle"]
    /\ number_left' = number_left - 1
    /\ success' = FALSE
    /\ UNCHANGED <<num_workers, image_names, pc, taskqueue, PROGRESS,
                   PROGRESS_LOCK, log, files, nwrites>>
    /\ UNCHANGED <<samplerVars, extractVars, quantVars>>

\* lines 105-119: read, extract, sample alpha responses, np.save under the index;
\* then the next item of the chunk, or the chunk's report to MapResult._set
ProcessImage(w) ==
    /\ wpc[w] = "read"
    /\ LET a == Head(wtask[w])
           key == SaveKey(a)
           rest == Tail(wtask[w])
       IN /\ files' = [k \in DOMAIN files \cup {key} |->
                          IF k = key THEN SavedBatch(a) ELSE files[k]]
          /\ nwrites' = [k \in DOMAIN nwrites \cup {key} |->
                          IF k = key
                          THEN (IF k \in DOMAIN nwrites THEN nwrites[k] + 1 ELSE 1)
                          ELSE nwrites[k]]
          /\ wtask' = [wtask EXCEPT ![w] = rest]
          /\ IF rest = <<>>
             THEN /\ wpc' = [wpc EXCEPT ![w] = "idle"]
                  /\ number_left' = number_left - 1
                  /\ item_state' = [item_state EXCEPT ![a.i] = "done"]
             ELSE /\ wpc' = [wpc EXCEPT ![w] = "lock"]
                  /\ number_left' = number_left
                  /\ item_state' = [item_state EXCEPT ![a.i] = "done",
                                                      ![Head(rest).i] = "running"]
    /\ UNCHANGED <<num_workers, image_names, pc, taskqueue, success,
                   PROGRESS, PROGRESS_LOCK, log>>
    /\ UNCHANGED <<samplerVars, extractVars, quantVars>>

Next ==
    \/ Dispatch
    \/ MapReturn
    \/ MapRaise
    \/ PoolClose
    \/ PoolJoin
    \/ \E w \in Workers : TakeTask(w)
    \/ \E w \in Workers : AcquireLock(w)
    \/ \E w \in Workers : IncrementRelease(w)
    \/ \E w \in Workers : PrintProgress(w)
    \/ \E w \in Workers : ReadFails(w)
    \/ \E w \in Workers : ProcessImage(w)

Spec == Init /\ [][Next]_vars

\* ===================== the sampling loop of compute_dictionary_one_image
\* bounds of the sampler's inputs
MaxDim == 2
MaxAlpha == 3

\* a draw whose upper end is inclusive
RandomChoiceInclusive(n) == 0 .. n

\* np.random.choice(n): one of arange(n)
RandomChoice(n) == 0 .. (n - 1)

\* whether filter_responses[h, w, :] is inside the (H, W, 60) tensor
InTensor(shape, h, w) == 0 <= h /\ h < shape[1] /\ 0 <= w /\ w < shape[2]

\* filter_responses[h, w, :]: the whole response vector of pixel (h, w)
ResponseAt(h, w) == [pixel |-> <<h, w>>, channels |-> "all"]

InitSampler ==
    /\ CoordOff /\ ExtractOff /\ QuantOff
    /\ sm_pc = "loop"
    /\ sm_shape \in (1 .. MaxDim) \X (1 .. MaxDim)
    /\ sm_alpha \in 1 .. MaxAlpha
    /\ sm_j = 0
    /\ sm_draws = <<>>
    /\ sampled_response = <<>>

\* lines 113-116: one iteration; an index outside the tensor raises IndexError
SampleOne ==
    /\ sm_pc = "loop"
    /\ sm_j < sm_alpha
    /\ \E ran_h \in RandomChoice(sm_shape[1]), ran_w \in RandomChoice(sm_shape[2]) :
          /\ sm_draws' = Append(sm_draws, <<ran_h, ran_w>>)
          /\ IF InTensor(sm_shape, ran_h, ran_w)
             THEN /\ sampled_response' = Append(sampled_response, ResponseAt(ran_h, ran_w))
                  /\ sm_j' = sm_j + 1
                  /\ sm_pc' = "loop"
             ELSE /\ sampled_response' = sampled_response
                  /\ sm_j' = sm_j
                  /\ sm_pc' = "IndexError"
    /\ UNCHANGED <<sm_shape, sm_alpha, coordVars, extractVars, quantVars>>

\* lines 118-119: the loop is over, the rows are saved
SampleSave ==
    /\ sm_pc = "loop"
    /\ sm_j = sm_alpha
    /\ sm_pc' = "saved"
    /\ UNCHANGED <<sm_shape, sm_alpha, sm_j, sm_draws, sampled_response,
                   coordVars, extractVars, quantVars>>

NextSampler == SampleOne \/ SampleSave

SpecSampler == InitSampler /\ [][NextSampler]_vars

\* ================================================ extract_filter_responses
\* bound of the input's channel count
MaxChannels == 4

\* sigmas = [1, 2, 4, 8, 8*sqrt(2)], each held as its square
SigmaSquared == <<1, 4, 16, 64, 128>>

\* lines 35-40: the input channels that make up the 3-channel image handed to
\* rgb2lab; <<>> when neither branch applies and the image has not 3 channels
ToThreeChannels(channels) ==
    IF channels = 0 THEN <<0, 0, 0>>
    ELSE IF channels > 3 THEN <<0, 1, 2>>
    ELSE [k \in 1 .. channels |-> k - 1]

\* line 49: gaussian_filter(image_lab[:, :, i], sigma)
GaussianPlane(s, i, rgb) ==
    [filter |-> "gaussian_filter", sigma2 |-> SigmaSquared[s], lab |-> i,
     rgb |-> rgb, first |-> <<>>, second |-> <<>>]

\* line 53: gaussian_laplace(image_lab[:, :, i], sigma)
LaplacePlane(s, i, rgb) ==
    [filter |-> "gaussian_laplace", sigma2 |-> SigmaSquared[s], lab |-> i,
     rgb |-> rgb, first |-> <<>>, second |-> <<>>]

\* the x-derivative with its two axes exchanged
DxPlaneAxesSwapped(s, i, rgb) ==
    [filter |-> "gaussian_filter1d", sigma2 |-> SigmaSquared[s], lab |-> i,
     rgb |-> rgb, first |-> [axis |-> 0, order |-> 1], second |-> [axis |-> 1, order |-> 0]]

\* lines 57-58: gaussian_filter1d(axis=1, order=1), then gaussian_filter1d(axis=0)
DxPlane(s, i, rgb) ==
    [filter |-> "gaussian_filter1d", sigma2 |-> SigmaSquared[s], lab |-> i,
     rgb |-> rgb, first |-> [axis |-> 1, order |-> 1], second |-> [axis |-> 0, order |-> 0]]

\* lines 62-63: gaussian_filter1d(axis=0, order=1), then gaussian_filter1d(axis=1)
DyPlane(s, i, rgb) ==
    [filter |-> "gaussian_filter1d", sigma2 |-> SigmaSquared[s], lab |-> i,
     rgb |-> rgb, first |-> [axis |-> 0, order |-> 1], second |-> [axis |-> 1, order |-> 0]]

InitExtract ==
    /\ CoordOff /\ SamplerOff /\ QuantOff
    /\ ex_pc = "start"
    /\ ex_channels \in 0 .. MaxChannels
    /\ ex_rgb = <<>>
    /\ ex_sigma = 0
    /\ ex_i = 0
    /\ filter_responses = <<>>

\* lines 35-46: coerce to 3 channels, convert to LAB, enter the sigma loop
ExtractPrepare ==
    /\ ex_pc = "start"
    /\ Len(ToThreeChannels(ex_channels)) = 3
    /\ ex_rgb' = ToThreeChannels(ex_channels)
    /\ ex_sigma' = 1
    /\ ex_i' = 0
    /\ ex_pc' = "gaussian"
    /\ UNCHANGED <<ex_channels, filter_responses, coordVars, samplerVars, quantVars>>

\* line 43: rgb2lab rejects an image whose last axis is not 3 long
ExtractRejects ==
    /\ ex_pc = "start"
    /\ Len(ToThreeChannels(ex_channels)) # 3
    /\ ex_pc' = "ValueError"
    /\ UNCHANGED <<ex_channels, ex_rgb, ex_sigma, ex_i, filter_responses,
                   coordVars, samplerVars, quantVars>>

\* one iteration of one of the four inner loops: append the plane, then the
\* next i, the next loop, or the next sigma
ExtractAppend(stage, plane, nextStage) ==
    /\ ex_pc = stage
    /\ filter_responses' = Append(filter_responses, plane)
    /\ IF ex_i < 2
       THEN /\ ex_i' = ex_i + 1
            /\ ex_pc' = stage
            /\ ex_sigma' = ex_sigma
       ELSE /\ ex_i' = 0
            /\ IF nextStage # "gaussian"
               THEN /\ ex_pc' = nextStage
                    /\ ex_sigma' = ex_sigma
               ELSE IF ex_sigma < Len(SigmaSquared)
               THEN /\ ex_pc' = "gaussian"
                    /\ ex_sigma' = ex_sigma + 1
               ELSE /\ ex_pc' = "stack"
                    /\ ex_sigma' = ex_sigma
    /\ UNCHANGED <<ex_channels, ex_rgb, coordVars, samplerVars, quantVars>>

\* lines 48-49
AppendGaussian ==
    ExtractAppend("gaussian", GaussianPlane(ex_sigma, ex_i, ex_rgb), "laplace")

\* lines 52-53
AppendLaplace ==
    ExtractAppend("laplace", LaplacePlane(ex_sigma, ex_i, ex_rgb), "dx")

\* lines 56-58
AppendDx ==
    ExtractAppend("dx", DxPlane(ex_sigma, ex_i, ex_rgb), "dy")

\* lines 61-63
AppendDy ==
    ExtractAppend("dy", DyPlane(ex_sigma, ex_i, ex_rgb), "gaussian")

\* lines 66-67: np.dstack keeps the list's order along the channel axis
ExtractReturn ==
    /\ ex_pc = "stack"
    /\ ex_pc' = "returned"
    /\ UNCHANGED <<ex_channels, ex_rgb, ex_sigma, ex_i, filter_responses,
                   coordVars, samplerVars, quantVars>>

NextExtract ==
    \/ ExtractPrepare
    \/ ExtractRejects
    \/ AppendGaussian
    \/ AppendLaplace
    \/ AppendDx
    \/ AppendDy
    \/ ExtractReturn

SpecExtract == InitExtract /\ [][NextExtract]_vars

\* ========================================================= get_visual_words
\* bounds of the quantizer's inputs
MaxPixels == 2
MaxCentroids == 2
MaxResponse == 1

\* response vectors, cut to two channels with values 0 .. MaxResponse
Vectors == (0 .. MaxResponse) \X (0 .. MaxResponse)

\* lines 69-81: the body is `pass`, the call returns None
get_visual_words(image, dictionary) == [kind |-> "None"]

InitQuantize ==
    /\ CoordOff /\ SamplerOff /\ ExtractOff
    /\ qz_pc = "call"
    /\ \E n \in 1 .. MaxPixels : qz_image \in [1 .. n -> Vectors]
    /\ \E k \in 1 .. MaxCentroids : qz_dictionary \in [1 .. k -> Vectors]
    /\ wordmap = [kind |-> "unset"]

GetVisualWords ==
    /\ qz_pc = "call"
    /\ wordmap' = get_visual_words(qz_image, qz_dictionary)
    /\ qz_pc' = "returned"
    /\ UNCHANGED <<qz_image, qz_dictionary, coordVars, samplerVars, extractVars>>

NextQuantize == GetVisualWords

SpecQuantize == InitQuantize /\ [][NextQuantize]_vars

\* ================================================================== claims
\* the items whose unit of work has ended, by a save or by an exception
Completed == {i \in Indices : item_state[i] \in {"done", "failed"}}

C2_SharedTotal ==
    (pc \in {"map", "mapped", "closed", "returned", "raised"}
        /\ \A w \in Workers : wpc[w] \in {"idle", "exited"}) =>
    \A p \in Processes : PROGRESS[p] = Alpha * Cardinality(Completed)

\* C3: increment and log are one critical section under PROGRESS_LOCK: while a
\* worker has incremented and not yet logged, no other worker is between its
\* own increment and log, and the progress lines come out in strictly
\* increasing order of running total.
C3_IncrementAndLogAtomic ==
    /\ \A v, w \in Workers : (wpc[v] = "print" /\ wpc[w] = "print") => v = w
    /\ \A k \in 1 .. (Len(log) - 1) : log[k].total < log[k + 1].total

\* C4: when compute_dictionary returns, the data directory holds exactly one
\* artifact per index 0..N-1, the one for index i being the alpha-row batch of
\* image_names[i]: a function of the corpus alone, the same for every pool size
\* (1 and 4 among them) and every completion order.
C4_SameArtifactsForEveryPool ==
    pc = "returned" =>
        /\ DOMAIN files = {SampleKey(i) : i \in Indices}
        /\ \A i \in Indices :
              files[SampleKey(i)] = [image_path |-> ImagePath(i), rows |-> Alpha]

C4_Witness ==
    /\ pc = "returned"
    /\ num_workers = 4
    /\ NumImages >= 3
    /\ DOMAIN files = {SampleKey(i) : i \in Indices}

\* C5: once the parallel sampling is over, compute_dictionary reads the batches
\* back and produces the dictionary: when it has returned, the dictionary exists.
C5_DictionaryBuilt ==
    pc = "returned" => DictionaryKey \in DOMAIN files

\* C6: a failed item does not stop the others: when the run is over, every item
\* but the failed ones has been processed and has its artifact.
C6_SiblingsProcessed ==
    pc \in {"raised", "returned"} =>
        \A i \in Indices \ Failed :
            item_state[i] = "done" /\ SampleKey(i) \in DOMAIN files

\* C7: the sampling loop never indexes outside the H x W response tensor; row k
\* is the response vector at the k-th coordinate drawn, 0 <= h < H, 0 <= w < W;
\* and the batch saved has exactly alpha rows.
C7_SampledRowsAreDrawnPixels ==
    /\ sm_pc # "IndexError"
    /\ Len(sampled_response) = Len(sm_draws)
    /\ Len(sampled_response) = sm_j
    /\ \A k \in 1 .. Len(sm_draws) :
          /\ sm_draws[k][1] \in 0 .. (sm_shape[1] - 1)
          /\ sm_draws[k][2] \in 0 .. (sm_shape[2] - 1)
          /\ sampled_response[k].pixel = sm_draws[k]
          /\ sampled_response[k].channels = "all"
    /\ sm_pc = "saved" => Len(sampled_response) = sm_alpha

C7_Witness ==
    /\ sm_pc = "saved"
    /\ sm_shape = <<1, 2>>
    /\ sm_alpha = 3
    /\ sm_draws = <<<<0, 1>>, <<0, 0>>, <<0, 1>>>>
    /\ Len(sampled_response) = 3

\* the index of the nearest centroid (squared Euclidean distance, lowest index
\* among the nearest), 0-based
C8_Dist2(u, v) == (u[1] - v[1]) * (u[1] - v[1]) + (u[2] - v[2]) * (u[2] - v[2])

C8_Nearest(v, dictionary) ==
    (CHOOSE j \in 1 .. Len(dictionary) :
        /\ \A m \in 1 .. Len(dictionary) : C8_Dist2(v, dictionary[j]) <= C8_Dist2(v, dictionary[m])
        /\ \A m \in 1 .. (j - 1) : C8_Dist2(v, dictionary[m]) > C8_Dist2(v, dictionary[j])) - 1

\* C8: get_visual_words returns, for every pixel, the index in [0, K) of the
\* centroid nearest to the pixel's response vector, lowest index on ties.
C8_WordmapIsNearestCentroid ==
    qz_pc = "returned" =>
        /\ wordmap.kind = "ndarray"
        /\ wordmap = [kind |-> "ndarray",
                      data |-> [p \in DOMAIN qz_image |-> C8_Nearest(qz_image[p], qz_dictionary)]]

\* the scales in the order (1, 2, 4, 8, 8*sqrt(2)), squared
C9_ScalesSquared == <<1, 4, 16, 64, 128>>

\* 0 Gaussian, 1 Laplacian of Gaussian, 2 x-derivative (derivative along axis 1,
\* the columns), 3 y-derivative (derivative along axis 0, the rows)
C9_FilterType(p) ==
    IF p.filter = "gaussian_filter" THEN 0
    ELSE IF p.filter = "gaussian_laplace" THEN 1
    ELSE IF p.first = [axis |-> 1, order |-> 1] /\ p.second = [axis |-> 0, order |-> 0] THEN 2
    ELSE IF p.first = [axis |-> 0, order |-> 1] /\ p.second = [axis |-> 1, order |-> 0] THEN 3
    ELSE 4

\* C9: plane number 12*s + 3*f + c of the list is scale s, filter type f,
\* channel c, at every point of the loops, and the tensor returned has exactly
\* 60 planes.
C9_PlaneOrder ==
    /\ \A k \in 1 .. Len(filter_responses) :
          LET p == filter_responses[k]
              s == (k - 1) \div 12
              f == ((k - 1) % 12) \div 3
              c == (k - 1) % 3
          IN /\ s < 5
             /\ p.sigma2 = C9_ScalesSquared[s + 1]
             /\ C9_FilterType(p) = f
             /\ p.lab = c
    /\ ex_pc = "returned" => Len(filter_responses) = 60

C9_Witness ==
    /\ ex_pc = "returned"
    /\ ex_channels = 0
    /\ Len(filter_responses) = 60
    /\ filter_responses[60].sigma2 = 128
    /\ C9_FilterType(filter_responses[60]) = 3

\* C10: the argument list holds each index 0..N-1 exactly once, two workers are
\* never on the same index, every file written is the artifact of an item that
\* has been processed, keyed by that item's index, and no file is written twice.
C10_DisjointWrites ==
    /\ pc # "off" =>
          \A i \in Indices :
              Cardinality({k \in 1 .. Len(BuildArgs(image_names)) :
                              BuildArgs(image_names)[k].i = i}) = 1
    /\ \A v, w \in Workers :
          (v # w /\ wtask[v] # <<>> /\ wtask[w] # <<>>) =>
              Head(wtask[v]).i # Head(wtask[w]).i
    /\ \A k \in DOMAIN nwrites :
          /\ nwrites[k] = 1
          /\ \E i \in Indices : k = SampleKey(i) /\ item_state[i] = "done"
    /\ DOMAIN files = DOMAIN nwrites

C10_Witness ==
    /\ num_workers >= 2
    /\ NumImages >= 3
    /\ \A i \in Indices : SampleKey(i) \in DOMAIN nwrites
    /\ \E v, w \in Workers : v # w /\ PROGRESS[v] > 0 /\ PROGRESS[w] > 0
====
